---- MODULE Spec2Model ----
(***************************************************************************)
(* A model of utils/z80-snapshot-info.py, the .Z80 snapshot inspector of   *)
(* SpeccyBoot.                                                             *)
(*                                                                         *)
(* Two specifications are given.                                           *)
(*   SpecDump  the hex+ASCII dump routines (flush_line, display_byte,      *)
(*             display_uncompressed_data, display_compressed_data),        *)
(*             applied to concrete byte blocks;                            *)
(*   Spec      the script body: argument loop, header decoding, hardware   *)
(*             classification, report, memory section.                     *)
(* Byte strings are sequences of integers 0..255; a Python index k is the  *)
(* TLA+ index k + 1.                                                       *)
(***************************************************************************)
EXTENDS Integers, Sequences, FiniteSets, TLC

VARIABLES
  \* ---- globals of the dump routines (lines 42-108) and their stdout
  hex_seq,              \* pending hex column: one <<hi, lo>> digit pair per byte
  ascii_seq,            \* pending ASCII column: one character code per byte
  curr_offset,
  offset_of_curr_line,
  printed,              \* lines written by flush_line, oldest first
  dump_call,            \* "none" | "uncompressed" | "compressed": last call made
  dump_exc,             \* "none" | "IndexError": how that call ended
  bytes,                \* argument of that call
  ref,                  \* reference buffer `bytes` was compressed from, if any
  from_ref,             \* TRUE when `bytes` is the compressed form of `ref`
  \* ---- the script body (lines 122-213)
  argv,                 \* sys.argv[1:]
  stage,                \* position in the script
  exc,                  \* "none" | "SystemExit" | "IOError" | "AttributeError"
                        \*        | "struct.error" | "IndexError"
  exit_code,            \* -1 while running
  verbose,
  in_file,              \* "None" or the name of the opened file
  file_len,             \* size of the file named on the command line
  filepos,              \* read position in in_file
  header_pc,            \* word_regs['pc'] as unpacked from the primary header
  word_regs_pc,         \* word_regs['pc'] now
  flags,
  sub_header_length,    \* -1 until assigned
  hw_type,
  hw_state,
  hw_flags,
  version,              \* 0 until assigned
  hw_desc,              \* "" until assigned
  nbr_banks,            \* 0 until assigned
  page_i,               \* loop variable i of the page loop
  last_read,            \* [asked, got]: size asked of and returned by the
                        \* latest read of a memory block or page payload
  out                   \* stdout of the script body, one record per line

dumpvars == <<hex_seq, ascii_seq, curr_offset, offset_of_curr_line, printed,
              dump_call, dump_exc, bytes, ref, from_ref>>
mainvars == <<argv, stage, exc, exit_code, verbose, in_file, file_len, filepos,
              header_pc, word_regs_pc, flags, sub_header_length, hw_type, hw_state, hw_flags,
              version, hw_desc, nbr_banks, page_i, last_read, out>>
vars == <<dumpvars, mainvars>>

-----------------------------------------------------------------------------
(* Bounds of the model *)

MaxLen  == 4     \* longest arbitrary compressed input
MaxRuns == 2     \* runs a reference buffer is built from
MaxArgs == 2     \* command-line arguments after the program name
MaxData == 6     \* longest version-1 compressed body whose content is enumerated

-----------------------------------------------------------------------------
(* Program constants *)

ED          == 237       \* 0xED
LineBytes   == 16
FirstChar   == 32
LastChar    == 126       \* string.printable holds 9..13 and 32..126
Dot         == 46        \* '.'

-----------------------------------------------------------------------------
(* Sample inputs *)

ByteSample == {0, 3, 65, ED}
RunValues  == {0, 65, ED}
RunCounts  == {1, 3, 4, 17, 255, 256}

SeqsUpTo(S, n) == UNION {[1..k -> S] : k \in 0..n}

RECURSIVE Expand(_)
Expand(runs) ==
  IF runs = <<>> THEN <<>>
  ELSE [k \in 1..runs[1][2] |-> runs[1][1]] \o Expand(Tail(runs))

RefBuffers == {Expand(r) : r \in SeqsUpTo(RunValues \X RunCounts, MaxRuns)}

-----------------------------------------------------------------------------
(* The dump routines, as operators on the record of their globals *)

Globals == [hex_seq |-> hex_seq, ascii_seq |-> ascii_seq,
            curr_offset |-> curr_offset,
            offset_of_curr_line |-> offset_of_curr_line,
            printed |-> printed]

\* lines 78-81 and 94-97
ResetGlobals(g) == [g EXCEPT !.hex_seq = <<>>, !.ascii_seq = <<>>,
                             !.curr_offset = 0, !.offset_of_curr_line = 0]

\* " %02x" % ord(b)
HexPair(b) == <<b \div 16, b % 16>>

\* ord(b) >= 32 and string.count(string.printable, b) > 0
IsPrintable(b) == b >= FirstChar /\ b <= LastChar

AsciiChar(b) == IF IsPrintable(b) THEN b ELSE Dot

flush_line(g) ==
  [g EXCEPT !.printed = Append(@, [offset |-> g.offset_of_curr_line,
                                   hex    |-> g.hex_seq,
                                   ascii  |-> g.ascii_seq]),
            !.hex_seq = <<>>,
            !.ascii_seq = <<>>,
            !.offset_of_curr_line = g.curr_offset]

display_byte(g, b) ==
  LET g1 == [g EXCEPT !.hex_seq = Append(@, HexPair(b)),
                      !.ascii_seq = Append(@, AsciiChar(b)),
                      !.curr_offset = @ + 1]
  IN  IF g1.curr_offset % LineBytes = 0 THEN flush_line(g1) ELSE g1

\* for j in range(n): display_byte(b)
\* The n calls are made in order; the evaluation halves the range and, by
\* testing the state the first half leaves, computes it before the second
\* half starts, which keeps the evaluation shallow.
RECURSIVE display_repeat(_, _, _)
display_repeat(g, b, n) ==
  IF n = 0 THEN g
  ELSE IF n = 1 THEN display_byte(g, b)
       ELSE LET h == display_repeat(g, b, n \div 2)
            IN  IF h.curr_offset >= 0 THEN display_repeat(h, b, n - (n \div 2))
                ELSE h

\* for i in range(lo, hi): display_byte(bytes[i])      (i is 0-based)
RECURSIVE uncompressed_loop(_, _, _, _)
uncompressed_loop(g, data, lo, hi) ==
  IF ~(lo < hi) THEN g
  ELSE IF hi = lo + 1 THEN display_byte(g, data[lo + 1])
       ELSE LET mid == (lo + hi) \div 2
                h   == uncompressed_loop(g, data, lo, mid)
            IN  IF h.curr_offset >= 0 THEN uncompressed_loop(h, data, mid, hi)
                ELSE h

display_uncompressed_data(g, data) ==
  uncompressed_loop(ResetGlobals(g), data, 0, Len(data))

\* while i < len(bytes): ...      (i is 0-based; the result pairs the globals
\* with the exception that ended the loop, if any)
RECURSIVE compressed_loop_skip2(_, _, _)
compressed_loop_skip2(g, data, i) ==
  IF ~(i < Len(data)) THEN [g |-> g, exc |-> "none"]
  ELSE LET b  == data[i + 1]
           i1 == i + 1
       IN  IF b = ED /\ i1 < Len(data) /\ data[i1 + 1] = ED
           THEN IF ~(i1 + 1 < Len(data))
                THEN [g |-> g, exc |-> "IndexError"]
                ELSE LET n == data[i1 + 2]
                     IN  IF n = 0
                         THEN compressed_loop_skip2(g, data, i1 + 2)
                         ELSE IF ~(i1 + 2 < Len(data))
                              THEN [g |-> g, exc |-> "IndexError"]
                              ELSE compressed_loop_skip2(
                                     display_repeat(g, data[i1 + 3], n), data, i1 + 2)
           ELSE compressed_loop_skip2(display_byte(g, b), data, i1)

RECURSIVE compressed_loop(_, _, _)
compressed_loop(g, data, i) ==
  IF ~(i < Len(data)) THEN [g |-> g, exc |-> "none"]
  ELSE LET b  == data[i + 1]
           i1 == i + 1                                    \* i += 1
       IN  IF b = ED /\ i1 < Len(data) /\ data[i1 + 1] = ED
           THEN IF ~(i1 + 1 < Len(data))                  \* bytes[i + 1]
                THEN [g |-> g, exc |-> "IndexError"]
                ELSE LET n == data[i1 + 2]
                     IN  IF n = 0                         \* range(0): no read
                         THEN compressed_loop(g, data, i1 + 3)
                         ELSE IF ~(i1 + 2 < Len(data))    \* bytes[i + 2]
                              THEN [g |-> g, exc |-> "IndexError"]
                              ELSE compressed_loop(
                                     display_repeat(g, data[i1 + 3], n), data, i1 + 3)
           ELSE compressed_loop(display_byte(g, b), data, i1)

display_compressed_data(g, data) == compressed_loop(ResetGlobals(g), data, 0)

-----------------------------------------------------------------------------
(* The run-length scheme the round-trip law compresses with: a run of 4 to *)
(* 255 equal bytes becomes ED ED count value, every other byte is copied.  *)

\* number of equal bytes from position p on (p is 1-based)
RunLength(buf, p) ==
  LET D == {q \in p..Len(buf) : buf[q] # buf[p]}
  IN  IF D = {} THEN Len(buf) - p + 1
      ELSE (CHOOSE q \in D : \A r \in D : q <= r) - p

MinRun == 4
MaxRun == 255

RECURSIVE Tokens(_, _)
Tokens(buf, p) ==
  IF p > Len(buf) THEN <<>>
  ELSE LET r == RunLength(buf, p)
           n == IF r > MaxRun THEN MaxRun ELSE r
       IN  IF n >= MinRun
           THEN <<[run |-> TRUE, n |-> n, v |-> buf[p]]>> \o Tokens(buf, p + n)
           ELSE <<[run |-> FALSE, n |-> 1, v |-> buf[p]]>> \o Tokens(buf, p + 1)

RECURSIVE Flatten(_)
Flatten(toks) ==
  IF toks = <<>> THEN <<>>
  ELSE (IF toks[1].run THEN <<ED, ED, toks[1].n, toks[1].v>> ELSE <<toks[1].v>>)
       \o Flatten(Tail(toks))

Compress(buf) == Flatten(Tokens(buf, 1))

-----------------------------------------------------------------------------
(* SpecDump: the dump routines applied to concrete blocks *)

MainIdle ==
  /\ argv = <<>> /\ stage = "idle" /\ exc = "none" /\ exit_code = -1
  /\ verbose = FALSE /\ in_file = "None" /\ file_len = 0 /\ filepos = 0
  /\ header_pc = 0 /\ word_regs_pc = 0 /\ flags = 0
  /\ sub_header_length = -1 /\ hw_type = 0
  /\ hw_state = 0 /\ hw_flags = 0 /\ version = 0 /\ hw_desc = ""
  /\ nbr_banks = 0 /\ page_i = 0 /\ last_read = [asked |-> 0, got |-> 0]
  /\ out = <<>>

NoGlobals == [hex_seq |-> <<>>, ascii_seq |-> <<>>, curr_offset |-> 0,
              offset_of_curr_line |-> 0, printed |-> <<>>]

\* What an earlier dump of 17 bytes 'A' leaves in the globals: the 17th byte
\* is still pending.
Leftover == [hex_seq |-> <<HexPair(65)>>, ascii_seq |-> <<65>>, curr_offset |-> 17,
             offset_of_curr_line |-> 16, printed |-> <<>>]

InitDump ==
  /\ \E g \in {NoGlobals, Leftover} :
       /\ hex_seq = g.hex_seq
       /\ ascii_seq = g.ascii_seq
       /\ curr_offset = g.curr_offset
       /\ offset_of_curr_line = g.offset_of_curr_line
       /\ printed = g.printed
  /\ dump_call = "none" /\ dump_exc = "none"
  /\ bytes = <<>> /\ ref = <<>> /\ from_ref = FALSE
  /\ MainIdle

SetGlobals(g) ==
  /\ hex_seq' = g.hex_seq
  /\ ascii_seq' = g.ascii_seq
  /\ curr_offset' = g.curr_offset
  /\ offset_of_curr_line' = g.offset_of_curr_line
  /\ printed' = g.printed

\* One call of display_uncompressed_data(bytes) with verbose set (lines 197, 209)
DisplayUncompressed ==
  /\ dump_call = "none"
  /\ \E data \in RefBuffers :
       /\ SetGlobals(display_uncompressed_data(Globals, data))
       /\ bytes' = data
       /\ ref' = <<>>
       /\ from_ref' = FALSE
  /\ dump_call' = "uncompressed"
  /\ dump_exc' = "none"
  /\ UNCHANGED mainvars

\* One call of display_compressed_data(bytes) with verbose set (lines 201, 213)
DisplayCompressed ==
  /\ dump_call = "none"
  /\ \E data \in SeqsUpTo(ByteSample, MaxLen) :
       LET r == display_compressed_data(Globals, data)
       IN  /\ SetGlobals(r.g)
           /\ dump_exc' = r.exc
           /\ bytes' = data
           /\ ref' = <<>>
           /\ from_ref' = FALSE
  /\ dump_call' = "compressed"
  /\ UNCHANGED mainvars

\* The round trip: a reference buffer is compressed, then displayed.
CompressThenDisplay ==
  /\ dump_call = "none"
  /\ \E buf \in RefBuffers :
       LET data == Compress(buf)
           r    == display_compressed_data(Globals, data)
       IN  /\ SetGlobals(r.g)
           /\ dump_exc' = r.exc
           /\ bytes' = data
           /\ ref' = buf
           /\ from_ref' = TRUE
  /\ dump_call' = "compressed"
  /\ UNCHANGED mainvars

NextDump == DisplayUncompressed \/ DisplayCompressed \/ CompressThenDisplay

SpecDump == InitDump /\ [][NextDump]_vars

-----------------------------------------------------------------------------
(* Properties of the dump routines (checked under SpecDump) *)

RECURSIVE JoinHex(_, _, _)
JoinHex(ls, lo, hi) ==
  IF lo > hi THEN <<>>
  ELSE IF lo = hi THEN ls[lo].hex
       ELSE LET mid == (lo + hi) \div 2
            IN  JoinHex(ls, lo, mid) \o JoinHex(ls, mid + 1, hi)

\* The bytes given to display_byte so far, read back from the hex column of
\* the printed lines followed by the pending line.
Emitted ==
  LET P == JoinHex(printed, 1, Len(printed)) \o hex_seq
  IN  [k \in 1..Len(P) |-> P[k][1] * 16 + P[k][2]]

\* The output the left-to-right scan of C1 describes, from position p (1-based);
\* an escape whose count or value byte is missing has nothing to repeat.
RECURSIVE ScanOutput(_, _)
ScanOutput(data, p) ==
  IF p > Len(data) THEN <<>>
  ELSE IF data[p] = ED /\ p + 1 <= Len(data) /\ data[p + 1] = ED
       THEN (IF p + 3 <= Len(data) THEN [k \in 1..data[p + 2] |-> data[p + 3]]
                                   ELSE <<>>)
            \o ScanOutput(data, p + 4)
       ELSE <<data[p]>> \o ScanOutput(data, p + 1)

\* C1 (as claimed): for every input byte sequence, display_compressed_data
\* runs until the input is exhausted and emits exactly the output of the
\* scan: value repeated count times for each ED ED count value, every other
\* byte (a lone ED included) unchanged.
C1_ScanEveryInput ==
  dump_call = "compressed" =>
    /\ dump_exc = "none"
    /\ Emitted = ScanOutput(bytes, 1)

\* The tokens of the compressed form never put a copied ED right before
\* another ED (a copied ED, or the marker of an encoded run).
NoCopiedEDBeforeED(buf) ==
  LET t == Tokens(buf, 1)
  IN  \A k \in 1..Len(t) :
        (~t[k].run /\ t[k].v = ED) =>
          (k = Len(t) \/ (~t[k + 1].run /\ t[k + 1].v # ED))

\* C2 (as claimed): compressing any reference buffer and displaying the
\* result with display_compressed_data reproduces the buffer (stated of the
\* displays that ran to the end of their input).
C2_RoundTripEveryBuffer ==
  (from_ref /\ dump_exc = "none") => Emitted = ref

\* C2 (amended): the round trip reproduces the buffer whenever the compressed
\* form holds no copied 0xED byte directly followed by a 0xED byte.
C2_RoundTrip ==
  (from_ref /\ NoCopiedEDBeforeED(ref)) => (dump_exc = "none" /\ Emitted = ref)

\* A round trip through two encoded runs, one of 255 bytes, one of 0xED bytes.
C2_Witness ==
  /\ from_ref /\ NoCopiedEDBeforeED(ref)
  /\ Len(ref) >= 255 + 4
  /\ \E k \in 1..Len(ref) : ref[k] = ED
  /\ \E k \in 1..Len(bytes) : bytes[k] = 255
  /\ dump_exc = "none" /\ Emitted = ref

CeilDiv(n, d) == (n + d - 1) \div d

MinOf(a, b) == IF a < b THEN a ELSE b

\* C7 (as claimed): a dumped block of n bytes prints ceil(n/16) lines, line k
\* starting at offset 16*k and holding bytes 16*k .. min(16*k+15, n-1), the
\* final partial line included.
C7_EveryByteDumped ==
  dump_call = "uncompressed" =>
    /\ Len(printed) = CeilDiv(Len(bytes), 16)
    /\ \A k \in 1..Len(printed) :
         /\ printed[k].offset = 16 * (k - 1)
         /\ printed[k].hex =
              [j \in 1..(MinOf(16 * k, Len(bytes)) - 16 * (k - 1)) |->
                 HexPair(bytes[16 * (k - 1) + j])]

-----------------------------------------------------------------------------
(* The script body: sample inputs *)

FileName     == "snap.z80"
Args         == {"-h", "-v", FileName}
FileLens     == {29, 31, 36, 40, 69, 70, 49182, 131182}
PcSample     == {0, 32768}          \* pc field of the primary header
RealPcSample == {32768}             \* pc field of the sub-header
FlagSample   == {0, 32, 255}
LengthSample == {5, 23, 54, 55}     \* sub_header_length
HwTypes      == 0..7
HwStates     == {0, 8}
HwFlags      == {0, 128}
PageLengths  == {2, 65535}          \* page_data_length
DataSample   == {0, ED}             \* bytes of a compressed payload
PageIdOf(i)  == i + 3               \* page_id of record i (pages 3..10)

-----------------------------------------------------------------------------
(* The script body: helpers *)

HeaderSize    == 30        \* struct.calcsize('<BBHHHHBBBHHHHBBHHBBB')
LengthSize    == 2         \* '<H'
SubHeaderSize == 6         \* '<HBBBB'
RecordSize    == 3         \* '<HB'
BlockSize     == 49152     \* 0xc000
PageSize      == 16384     \* 0x4000
Uncompressed  == 65535     \* 0xffff
Version2Len   == 23

\* x & mask # 0, for a mask of one bit
BitSet(x, mask) == (x \div mask) % 2 = 1

\* number of bytes in_file.read(n) returns at position pos; a negative n
\* reads to the end of the file
file_read(n, pos) ==
  LET left == file_len - pos
  IN  IF n < 0 THEN left ELSE IF n < left THEN n ELSE left

Line(kind, text, a, b) == [line |-> kind, text |-> text, a |-> a, b |-> b]

UsageLines ==
  << Line("usage", "usage:", 0, 0),
     Line("usage", "  %s [-v] [-h] <some_snapshot.z80>", 0, 0),
     Line("usage", "", 0, 0),
     Line("usage", "  -h: display this message", 0, 0),
     Line("usage", "  -v: verbose (dump memory bank contents)", 0, 0) >>

\* for arg in sys.argv[1:]: ...   v is verbose, f is in_file
RECURSIVE arg_loop(_, _, _)
arg_loop(args, v, f) ==
  IF args = <<>> THEN [verbose |-> v, in_file |-> f, exc |-> "none"]
  ELSE LET arg == Head(args)
       IN  IF arg = "-h"
           THEN [verbose |-> v, in_file |-> f, exc |-> "SystemExit"]
           ELSE IF arg = "-v"
                THEN arg_loop(Tail(args), TRUE, f)
                ELSE IF f # "None"
                     THEN [verbose |-> v, in_file |-> f, exc |-> "SystemExit"]
                     ELSE arg_loop(Tail(args), v, arg)

HwDescV2  == <<"48k", "48k + IF1", "SamRam", "128k", "128k + IF1">>
NbrBanksV2 == <<3, 3, 5, 8, 8>>
HwDescV3  == <<"48k", "48k + IF1", "SamRam", "48k + MGT",
               "128k", "128k + IF1", "128k + MGT">>
NbrBanksV3 == <<3, 3, 5, 3, 8, 8, 8>>

\* a mutant of TupleGet: an index past the end wraps around
TupleGet_wrap(t, k) == [ok |-> TRUE, val |-> t[(k % Len(t)) + 1]]

\* t[k] for a tuple t and k >= 0; IndexError when k is out of range
TupleGet(t, k) ==
  IF k < Len(t) THEN [ok |-> TRUE, val |-> t[k + 1]] ELSE [ok |-> FALSE, val |-> t[1]]

\* a mutant of IsVersion2: shorter sub-headers count as version 2 as well
IsVersion2_atmost(len) == len <= Version2Len

IsVersion2(len) == len = Version2Len

\* a mutant of TablesOf: the version-3 tables whatever the version
TablesOf_v3(v) == [desc |-> HwDescV3, banks |-> NbrBanksV3]

TablesOf(v) ==
  IF v = 2 THEN [desc |-> HwDescV2, banks |-> NbrBanksV2]
           ELSE [desc |-> HwDescV3, banks |-> NbrBanksV3]

\* lines 157-161
Remap(desc, fl) ==
  IF BitSet(fl, 128)
  THEN IF desc = "48k" THEN "16k"
       ELSE IF desc = "128k" THEN "128k +2" ELSE desc
  ELSE desc

\* lines 148-161: version, hw_desc, nbr_banks as assigned when the
\* classification ends, normally or by the IndexError of a table lookup
Classify(len, type, fl) ==
  LET v == IF IsVersion2(len) THEN 2 ELSE 3
      d == TupleGet(TablesOf(v).desc, type)
      n == TupleGet(TablesOf(v).banks, type)
  IN  IF ~d.ok
      THEN [version |-> v, hw_desc |-> "", nbr_banks |-> 0, exc |-> "IndexError"]
      ELSE IF ~n.ok
           THEN [version |-> v, hw_desc |-> d.val, nbr_banks |-> 0,
                 exc |-> "IndexError"]
           ELSE [version |-> v, hw_desc |-> Remap(d.val, fl),
                 nbr_banks |-> n.val, exc |-> "none"]

\* sub_header_length - 6
PaddingLength(len) == len - SubHeaderSize

\* a mutant of CompatLines: the elif nested under the '128k' test
CompatLines_nested(desc, state) ==
  IF desc = "128k"
  THEN IF BitSet(state, 8)
       THEN <<Line("incompatible", "screen at page 7", 0, 0)>>
       ELSE IF desc # "48k" /\ desc # "16k"
            THEN <<Line("incompatible", "unsupported configuration", 0, 0)>>
            ELSE <<>>
  ELSE <<>>

\* lines 179-184
CompatLines(desc, state) ==
  IF desc = "128k"
  THEN IF BitSet(state, 8)
       THEN <<Line("incompatible", "screen at page 7", 0, 0)>>
       ELSE <<>>
  ELSE IF desc # "48k" /\ desc # "16k"
       THEN <<Line("incompatible", "unsupported configuration", 0, 0)>>
       ELSE <<>>

ByteRegs == <<"a", "f", "i", "r", "a'", "f'">>
WordRegs == <<"pc", "sp", "bc", "de", "hl", "ix", "iy", "bc'", "de'", "hl'">>

\* lines 166-192
ReportLines ==
  << Line("version", "snapshot format version", version, 0),
     Line("hardware", hw_desc, 0, 0) >>
  \o (IF version > 1 /\ nbr_banks = 8
      THEN <<Line("paging", " 128k paging state:", hw_state, 0)>> ELSE <<>>)
  \o CompatLines(hw_desc, hw_state)
  \o <<Line("registers", "registers:", 0, 0)>>
  \o [k \in 1..Len(ByteRegs) |-> Line("register", ByteRegs[k], 0, 0)]
  \o [k \in 1..Len(WordRegs) |-> Line("register", WordRegs[k], 0, 0)]
  \o <<Line("memory", "memory snapshot format:", 0, 0)>>

\* The lines a verbose dump adds to stdout are recorded by their number.
\* display_uncompressed_data flushes a line at every 16th byte.
DumpUncompressed(n) == <<Line("dump", "", n \div LineBytes, 0)>>

DumpCompressed(r) == <<Line("dump", "", Len(r.g.printed), 0)>>

-----------------------------------------------------------------------------
(* The script body: actions *)

DumpUnused ==
  /\ hex_seq = <<>> /\ ascii_seq = <<>> /\ curr_offset = 0
  /\ offset_of_curr_line = 0 /\ printed = <<>>
  /\ dump_call = "none" /\ dump_exc = "none"
  /\ bytes = <<>> /\ ref = <<>> /\ from_ref = FALSE

Init ==
  /\ DumpUnused
  /\ argv \in SeqsUpTo(Args, MaxArgs)
  /\ file_len \in FileLens
  /\ stage = "args" /\ exc = "none" /\ exit_code = -1
  /\ verbose = FALSE /\ in_file = "None" /\ filepos = 0
  /\ header_pc = 0 /\ word_regs_pc = 0 /\ flags = 0
  /\ sub_header_length = -1 /\ hw_type = 0
  /\ hw_state = 0 /\ hw_flags = 0 /\ version = 0 /\ hw_desc = ""
  /\ nbr_banks = 0 /\ page_i = 0 /\ last_read = [asked |-> 0, got |-> 0]
  /\ out = <<>>

\* an uncaught exception, or exit(1): the interpreter ends with status 1
Abort(e) == exc' = e /\ exit_code' = 1 /\ stage' = "exit"

\* the script runs off its end
Finish == exc' = "none" /\ exit_code' = 0 /\ stage' = "exit"

headervars == <<header_pc, word_regs_pc, flags>>
subvars    == <<sub_header_length, hw_type, hw_state, hw_flags>>
classvars  == <<version, hw_desc, nbr_banks>>

\* lines 122-135
ParseArgs ==
  /\ stage = "args"
  /\ LET r == IF Len(argv) + 1 < 2
              THEN [verbose |-> FALSE, in_file |-> "None", exc |-> "SystemExit"]
              ELSE arg_loop(argv, FALSE, "None")
     IN  /\ verbose' = r.verbose
         /\ in_file' = r.in_file
         /\ IF r.exc = "SystemExit"
            THEN out' = out \o UsageLines /\ Abort("SystemExit")
            ELSE out' = out /\ stage' = "header" /\ UNCHANGED <<exc, exit_code>>
  /\ UNCHANGED <<argv, file_len, filepos, headervars, subvars, classvars,
                 page_i, last_read, dumpvars>>

IsCompressedV1(fl) == ~(fl = 255 \/ ~BitSet(fl, 32))

\* lines 137-141
ReadHeader ==
  /\ stage = "header"
  /\ IF in_file = "None"
     THEN Abort("AttributeError") /\ UNCHANGED <<filepos, headervars>>
     ELSE LET got == file_read(HeaderSize, filepos)
          IN  /\ filepos' = filepos + got
              /\ IF got < HeaderSize
                 THEN Abort("struct.error") /\ UNCHANGED headervars
                 ELSE /\ \E pc \in PcSample, fl \in FlagSample :
                           /\ (pc # 0 /\ IsCompressedV1(fl))
                                => file_len - HeaderSize <= MaxData
                           /\ header_pc' = pc
                           /\ word_regs_pc' = pc
                           /\ flags' = fl
                      /\ stage' = "subheader"
                      /\ UNCHANGED <<exc, exit_code>>
  /\ UNCHANGED <<argv, verbose, in_file, file_len, subvars, classvars,
                 page_i, last_read, out, dumpvars>>

\* lines 143-164
ReadSubHeader ==
  /\ stage = "subheader"
  /\ IF word_regs_pc = 0
     THEN LET got2 == file_read(LengthSize, filepos)
          IN  IF got2 < LengthSize
              THEN /\ filepos' = filepos + got2
                   /\ Abort("struct.error")
                   /\ UNCHANGED <<word_regs_pc, subvars, classvars>>
              ELSE \E len \in LengthSample :
                     LET pos2 == filepos + got2
                         got6 == file_read(SubHeaderSize, pos2)
                     IN  /\ sub_header_length' = len
                         /\ IF got6 < SubHeaderSize
                            THEN /\ filepos' = pos2 + got6
                                 /\ Abort("struct.error")
                                 /\ UNCHANGED <<word_regs_pc, hw_type, hw_state,
                                                hw_flags, classvars>>
                            ELSE \E pc \in RealPcSample, type \in HwTypes,
                                    state \in HwStates, fl \in HwFlags :
                                   LET pos8 == pos2 + got6
                                       pad  == file_read(PaddingLength(len), pos8)
                                       c    == Classify(len, type, fl)
                                   IN  /\ word_regs_pc' = pc
                                       /\ hw_type' = type
                                       /\ hw_state' = state
                                       /\ hw_flags' = fl
                                       /\ filepos' = pos8 + pad
                                       /\ version' = c.version
                                       /\ hw_desc' = c.hw_desc
                                       /\ nbr_banks' = c.nbr_banks
                                       /\ IF c.exc # "none"
                                          THEN Abort(c.exc)
                                          ELSE /\ stage' = "report"
                                               /\ UNCHANGED <<exc, exit_code>>
     ELSE /\ version' = 1
          /\ hw_desc' = "48k"
          /\ stage' = "report"
          /\ UNCHANGED <<exc, exit_code, filepos, word_regs_pc, subvars, nbr_banks>>
  /\ UNCHANGED <<argv, verbose, in_file, file_len, header_pc, flags,
                 page_i, last_read, out, dumpvars>>

\* lines 166-192
Report ==
  /\ stage = "report"
  /\ out' = out \o ReportLines
  /\ stage' = "memory"
  /\ UNCHANGED <<argv, exc, exit_code, verbose, in_file, file_len, filepos,
                 headervars, subvars, classvars, page_i, last_read, dumpvars>>

\* lines 193-201
ReadBlock ==
  /\ stage = "memory"
  /\ version = 1
  /\ IF ~IsCompressedV1(flags)
     THEN LET got == file_read(BlockSize, filepos)
          IN  /\ filepos' = filepos + got
              /\ last_read' = [asked |-> BlockSize, got |-> got]
              /\ out' = out \o <<Line("block", " single 48k uncompressed block", 0, 0)>>
                            \o (IF verbose THEN DumpUncompressed(got) ELSE <<>>)
              /\ Finish
     ELSE LET got == file_read(-1, filepos)
          IN  /\ filepos' = filepos + got
              /\ last_read' = [asked |-> -1, got |-> got]
              /\ IF verbose
                 THEN \E data \in [1..got -> DataSample] :
                        LET r == display_compressed_data(NoGlobals, data)
                        IN  /\ out' = out
                                 \o <<Line("block", " single 48k compressed block", 0, 0)>>
                                 \o DumpCompressed(r)
                            /\ IF r.exc # "none" THEN Abort(r.exc) ELSE Finish
                 ELSE /\ out' = out
                           \o <<Line("block", " single 48k compressed block", 0, 0)>>
                      /\ Finish
  /\ UNCHANGED <<argv, verbose, in_file, file_len, headervars, subvars,
                 classvars, page_i, dumpvars>>

\* lines 202-203
PageTableBegin ==
  /\ stage = "memory"
  /\ version # 1
  /\ out' = out \o <<Line("pages", " %d x 16k pages:", nbr_banks, 0)>>
  /\ page_i' = 0
  /\ stage' = "pages"
  /\ UNCHANGED <<argv, exc, exit_code, verbose, in_file, file_len, filepos,
                 headervars, subvars, classvars, last_read, dumpvars>>

\* the end of one pass of the page loop: the next pass, or the end of the script
NextPage ==
  /\ page_i' = page_i + 1
  /\ IF page_i + 1 < nbr_banks
     THEN stage' = "pages" /\ UNCHANGED <<exc, exit_code>>
     ELSE Finish

\* lines 204-213, one pass of the loop
ReadPage ==
  /\ stage = "pages"
  /\ page_i < nbr_banks
  /\ LET got3 == file_read(RecordSize, filepos)
     IN  IF got3 < RecordSize
         THEN /\ filepos' = filepos + got3
              /\ Abort("struct.error")
              /\ UNCHANGED <<page_i, last_read, out>>
         ELSE \E page_data_length \in PageLengths :
                LET page_id == PageIdOf(page_i)
                    pos     == filepos + got3
                IN  IF page_data_length = Uncompressed
                    THEN LET got == file_read(PageSize, pos)
                         IN  /\ filepos' = pos + got
                             /\ last_read' = [asked |-> PageSize, got |-> got]
                             /\ out' = out
                                  \o <<Line("page", "uncompressed", page_id, 0)>>
                                  \o (IF verbose THEN DumpUncompressed(got) ELSE <<>>)
                             /\ NextPage
                    ELSE LET got == file_read(page_data_length, pos)
                         IN  /\ filepos' = pos + got
                             /\ last_read' = [asked |-> page_data_length, got |-> got]
                             /\ IF verbose
                                THEN \E data \in [1..got -> DataSample] :
                                       LET r == display_compressed_data(NoGlobals, data)
                                       IN  /\ out' = out
                                             \o <<Line("page", "compressed", page_id,
                                                       page_data_length)>>
                                             \o DumpCompressed(r)
                                           /\ IF r.exc # "none"
                                              THEN Abort(r.exc) /\ page_i' = page_i
                                              ELSE NextPage
                                ELSE /\ out' = out
                                          \o <<Line("page", "compressed", page_id,
                                                    page_data_length)>>
                                     /\ NextPage
  /\ UNCHANGED <<argv, verbose, in_file, file_len, headervars, subvars,
                 classvars, dumpvars>>

Next ==
  \/ ParseArgs
  \/ ReadHeader
  \/ ReadSubHeader
  \/ Report
  \/ ReadBlock
  \/ PageTableBegin
  \/ ReadPage

Spec == Init /\ [][Next]_vars

-----------------------------------------------------------------------------
(* Properties of the script body (checked under Spec) *)

\* C3: the version is 1 exactly when the primary header's pc is nonzero
\* (hardware "48k", no sub-header read, 30 bytes consumed), 2 when pc is zero
\* and the sub-header length is 23, and 3 for pc zero with any other length.
C3_VersionRule ==
  /\ version # 0 =>
       version = (IF header_pc # 0 THEN 1
                  ELSE IF sub_header_length = 23 THEN 2 ELSE 3)
  /\ stage \in {"report", "memory", "pages"} => version # 0
  /\ version = 1 =>
       /\ hw_desc = "48k"
       /\ sub_header_length = -1
       /\ stage \in {"report", "memory"} => filepos = 30

C3_Witness ==
  /\ stage = "memory"
  /\ header_pc = 0 /\ sub_header_length = 54 /\ version = 3

C4_Banks(v, code) ==
  IF v = 2 THEN <<3, 3, 5, 8, 8>>[code + 1] ELSE <<3, 3, 5, 3, 8, 8, 8>>[code + 1]

C4_Desc(v, code) ==
  IF v = 2
  THEN <<"48k", "48k + IF1", "SamRam", "128k", "128k + IF1">>[code + 1]
  ELSE <<"48k", "48k + IF1", "SamRam", "48k + MGT",
         "128k", "128k + IF1", "128k + MGT">>[code + 1]

C4_Final(desc, fl) ==
  IF (fl \div 128) % 2 = 1 /\ desc = "48k" THEN "16k"
  ELSE IF (fl \div 128) % 2 = 1 /\ desc = "128k" THEN "128k +2"
  ELSE desc

C4_InTable == version \in {2, 3} /\ hw_type < (IF version = 2 THEN 5 ELSE 7)

\* C4 (as claimed): the page counts come from the version's table, code 3 is
\* "128k" with 8 pages under version 2 and "48k+MGT" with 3 pages under
\* version 3, and with hw_flags bit 0x80 "48k" becomes "16k" and "128k"
\* becomes "128k +2".
C4_ProfileAsClaimed ==
  C4_InTable =>
    /\ nbr_banks = C4_Banks(version, hw_type)
    /\ (version = 2 /\ hw_type = 3) => hw_desc = C4_Final("128k", hw_flags)
    /\ (version = 3 /\ hw_type = 3) => hw_desc = "48k+MGT"
    /\ (hw_flags \div 128) % 2 = 1 => hw_desc \notin {"48k", "128k"}

\* C4 (amended): for version 2 or 3 and a code inside the version's table,
\* the profile is the version's table entry followed by the remap, the
\* entries being spelled "48k + IF1", "48k + MGT", "128k + IF1", "128k + MGT".
C4_Profile ==
  C4_InTable =>
    /\ nbr_banks = C4_Banks(version, hw_type)
    /\ hw_desc = C4_Final(C4_Desc(version, hw_type), hw_flags)

C4_Witness ==
  /\ version = 3 /\ hw_type = 3 /\ hw_flags = 128
  /\ hw_desc = "48k + MGT" /\ nbr_banks = 3
  /\ stage = "report"

\* C5: a hardware-type code outside the version's table ends the run with an
\* error: no description, no page count, nothing reported.
C5_UnknownTypeAborts ==
  (version \in {2, 3} /\ hw_type >= (IF version = 2 THEN 5 ELSE 7)) =>
    /\ stage = "exit" /\ exc = "IndexError" /\ exit_code = 1
    /\ hw_desc = "" /\ nbr_banks = 0
    /\ out = <<>>

C5_Witness ==
  /\ version = 2 /\ hw_type = 5
  /\ stage = "exit" /\ exc = "IndexError"

ReportDone == \E k \in 1..Len(out) : out[k].line = "memory"

Warned(text) ==
  \E k \in 1..Len(out) : out[k].line = "incompatible" /\ out[k].text = text

WarnedThenReported(text) ==
  \E k \in 1..Len(out) :
    /\ out[k].line = "incompatible" /\ out[k].text = text
    /\ \E j \in (k + 1)..Len(out) : out[j].line = "registers"
    /\ \E j \in (k + 1)..Len(out) : out[j].line = "memory"

\* C6 (as claimed): every final description other than "48k" and "16k",
\* "128k" included, gets the "unsupported configuration" warning.
C6_WarnsAllButBase ==
  (ReportDone /\ hw_desc \notin {"48k", "16k"}) =>
    Warned("unsupported configuration")

\* C6 (amended): every final description other than "48k", "16k" and "128k"
\* gets the "unsupported configuration" warning, for every hw_state, and the
\* register block and memory section follow it; "128k" never gets it, and gets
\* "screen at page 7" exactly when hw_state has bit 0x08 set.
C6_WarnsUnsupported ==
  ReportDone =>
    /\ hw_desc \notin {"48k", "16k", "128k"} =>
         WarnedThenReported("unsupported configuration")
    /\ hw_desc = "128k" =>
         /\ ~Warned("unsupported configuration")
         /\ Warned("screen at page 7") <=> (hw_state \div 8) % 2 = 1

C6_Witness ==
  /\ hw_desc = "SamRam" /\ hw_state = 8
  /\ WarnedThenReported("unsupported configuration")
  /\ stage = "pages"

\* C8 (as claimed): in the page table, a payload cut short by the end of
\* the file ends the run with an error: no run whose latest payload came back
\* shorter than asked ends normally.
C8_ShortRecordAborts ==
  (version \in {2, 3} /\ stage = "exit" /\ last_read.got < last_read.asked) =>
    (exit_code = 1 /\ exc # "none")

NumPositional == Cardinality({k \in 1..Len(argv) : argv[k] \notin {"-h", "-v"}})

\* C9 (as claimed): with no positional argument, with more than one, or with
\* -h, the program prints the usage text and exits with code 1 without
\* decoding; decoding starts only with exactly one positional argument.
C9_UsageUnlessOneFile ==
  stage # "args" =>
    /\ (NumPositional # 1 \/ \E k \in 1..Len(argv) : argv[k] = "-h") =>
         /\ stage = "exit" /\ exc = "SystemExit" /\ exit_code = 1
         /\ out = UsageLines
    /\ stage # "exit" => NumPositional = 1

\* C10 (as claimed): with pc zero the decoder consumes 2 bytes and then
\* exactly `length` bytes, for every length, so that the first page record
\* starts at offset 32 + length (in a file that holds that many bytes); with
\* pc nonzero it consumes exactly 30 bytes.
C10_HeaderBytesConsumed ==
  stage = "report" =>
    IF header_pc = 0
    THEN file_len >= 32 + sub_header_length => filepos = 32 + sub_header_length
    ELSE filepos = 30

====
